---- MODULE Spec2Model ----
(***************************************************************************)
(* A model of the RAG server of src/src/ragServer.py: the session registry *)
(* PDF_INDEXES, the two tools index_pdf and rag_query, and the pure        *)
(* functions they are built from (chunk_text, the flat L2 index, the       *)
(* sentence refinement of the answer).                                     *)
(*                                                                         *)
(* A Python str is a sequence of one-character strings; a numpy array is a *)
(* record [ndim, rows]; a faiss IndexFlatL2 is a record [d, rows].  The    *)
(* embedding model and the PDF extraction are external collaborators: the  *)
(* model runs over several deterministic embedders and over files that     *)
(* extract to a text or fail.                                              *)
(***************************************************************************)
EXTENDS Integers, Sequences, FiniteSets, TLC

(***************************************************************************)
(* Bounds of the model.                                                    *)
(***************************************************************************)
\* Requests (tool calls) started in one behaviour.
MaxRequests == 3
\* Length of the texts the chunker specification draws.
MaxTextLen == 5
\* Largest chunk_size the chunker specification draws.
MaxChunkSize == 3
\* chunk_size index_pdf runs chunk_text with: the default of
\* ragServer.py:26 is 128; the model's documents are a few words long and
\* are cut with a window scaled to them.
ChunkSize == 2

(***************************************************************************)
(* Python str operations.                                                  *)
(***************************************************************************)
Min(a, b) == IF a <= b THEN a ELSE b

\* The characters str.split(), str.strip() and the regex \s treat as
\* whitespace (the ones the model's texts use).
Whitespace == {" ", "\t", "\n"}

\* str.split() with no separator: cut at runs of whitespace, no empty word.
RECURSIVE SplitFrom(_, _, _, _)
SplitFrom(text, i, cur, acc) ==
    IF i > Len(text)
    THEN IF cur = <<>> THEN acc ELSE Append(acc, cur)
    ELSE IF text[i] \in Whitespace
         THEN SplitFrom(text, i + 1, <<>>,
                        IF cur = <<>> THEN acc ELSE Append(acc, cur))
         ELSE SplitFrom(text, i + 1, Append(cur, text[i]), acc)

split(text) == SplitFrom(text, 1, <<>>, <<>>)

\* sep.join(words)
RECURSIVE join(_, _)
join(sep, words) ==
    IF words = <<>> THEN <<>>
    ELSE IF Len(words) = 1 THEN words[1]
    ELSE words[1] \o sep \o join(sep, Tail(words))

\* range(start, stop, step) for step > 0, as a sequence.
RECURSIVE range(_, _, _)
range(start, stop, step) ==
    IF start >= stop THEN <<>>
    ELSE <<start>> \o range(start + step, stop, step)

\* words[i:j] for 0 <= i <= j: the slice clamps at the end of the list.
slice(words, i, j) == SubSeq(words, i + 1, Min(j, Len(words)))

(***************************************************************************)
(* chunk_text, ragServer.py:26-28.                                         *)
(***************************************************************************)
\* Faulty variant: each window takes one word of the next.
ChunkTextOverlapMutant(text, chunk_size) ==
    LET words == split(text)
        starts == range(0, Len(words), chunk_size)
    IN  [k \in 1..Len(starts) |->
            join(<<" ">>, slice(words, starts[k], starts[k] + chunk_size + 1))]

\* Faulty variant: the last, shorter window is dropped.
ChunkTextDropTailMutant(text, chunk_size) ==
    LET words == split(text)
        starts == range(0, Len(words) - chunk_size + 1, chunk_size)
    IN  [k \in 1..Len(starts) |->
            join(<<" ">>, slice(words, starts[k], starts[k] + chunk_size))]

chunk_text(text, chunk_size) ==
    LET words == split(text)
        starts == range(0, Len(words), chunk_size)
    IN  [k \in 1..Len(starts) |->
            join(<<" ">>, slice(words, starts[k], starts[k] + chunk_size))]

(***************************************************************************)
(* The embedding model, ragServer.py:14.  model.encode is a deterministic  *)
(* function of the text; which function is not the program's business, so  *)
(* the model runs over NumModels of them.  Vectors have Dim components,    *)
(* all >= 0.                                                               *)
(***************************************************************************)
\* Dimension of the embedding vectors (768 for the model of ragServer.py:14).
Dim == 2
\* Number of embedding functions the model runs over.
NumModels == 2

Vowels == {"a", "e", "i", "o", "u", "y"}

RECURSIVE CountIn(_, _)
CountIn(text, set) ==
    IF text = <<>> THEN 0
    ELSE (IF Head(text) \in set THEN 1 ELSE 0) + CountIn(Tail(text), set)

Embed(m, text) ==
    [j \in 1..Dim |->
        (CountIn(text, Vowels) * j + Len(text) * (m + j - 1)) % 3]

\* What a call of model.encode does: "ok" returns one vector per string,
\* "raise" raises; "short" and "long" break the contract of one vector per
\* string (a row missing, a row too many).
EmbedOk == {"ok", "raise"}
EmbedAny == {"ok", "raise", "short", "long"}

\* numpy array returned by model.encode(batch).  An array without rows has
\* the number of dimensions the library gives an empty result: emptyNdim.
encode(m, batch, outcome, emptyNdim) ==
    LET full == [i \in 1..Len(batch) |-> Embed(m, batch[i])]
        rows == CASE outcome = "short" /\ Len(full) > 0 ->
                        SubSeq(full, 1, Len(full) - 1)
                  [] outcome = "long" -> Append(full, Embed(m, <<>>))
                  [] OTHER -> full
    IN  [ndim |-> IF rows = <<>> THEN emptyNdim ELSE 2, rows |-> rows]

(***************************************************************************)
(* faiss.IndexFlatL2, ragServer.py:38-39 and :51.                          *)
(***************************************************************************)
IndexFlatL2(dim) == [d |-> dim, rows |-> <<>>]

add(index, array) == [index EXCEPT !.rows = index.rows \o array.rows]

RECURSIVE SumSq(_, _, _)
SumSq(u, v, j) ==
    IF j = 0 THEN 0
    ELSE (u[j] - v[j]) * (u[j] - v[j]) + SumSq(u, v, j - 1)

L2sq(u, v) == SumSq(u, v, Len(u))

\* Faulty variant: a later row also replaces the best one when it is
\* equally near.
RECURSIVE ArgMinLast(_, _, _)
ArgMinLast(rows, q, n) ==
    IF n = 1 THEN 1
    ELSE LET best == ArgMinLast(rows, q, n - 1)
         IN  IF L2sq(rows[n], q) <= L2sq(rows[best], q) THEN n ELSE best

\* Best row among rows 1..n: a later row replaces the best one only when it
\* is strictly nearer.
RECURSIVE ArgMin(_, _, _)
ArgMin(rows, q, n) ==
    IF n = 1 THEN 1
    ELSE LET best == ArgMin(rows, q, n - 1)
         IN  IF L2sq(rows[n], q) < L2sq(rows[best], q) THEN n ELSE best

\* int(I[0][0]) of index.search(q, k=1): the zero-based label of the nearest
\* row, -1 when the index holds no row.
search(index, q) ==
    IF index.rows = <<>> THEN -1
    ELSE ArgMin(index.rows, q, Len(index.rows)) - 1

\* Python list indexing lst[idx]: a negative idx counts from the end.
InRange(lst, idx) == idx < Len(lst) /\ idx >= 0 - Len(lst)
getitem(lst, idx) == IF idx >= 0 THEN lst[idx + 1] ELSE lst[Len(lst) + idx + 1]

(***************************************************************************)
(* Characters: str.lower(), and the character classes of the regular       *)
(* expressions of ragServer.py:57, :69 and :73.                            *)
(***************************************************************************)
LowerAscii == {"a", "b", "c", "d", "e", "f", "g", "h", "i", "j", "k", "l", "m",
               "n", "o", "p", "q", "r", "s", "t", "u", "v", "w", "x", "y", "z"}
UpperAscii == {"A", "B", "C", "D", "E", "F", "G", "H", "I", "J", "K", "L", "M",
               "N", "O", "P", "Q", "R", "S", "T", "U", "V", "W", "X", "Y", "Z"}
UpperSeq == <<"A", "B", "C", "D", "E", "F", "G", "H", "I", "J", "K", "L", "M",
              "N", "O", "P", "Q", "R", "S", "T", "U", "V", "W", "X", "Y", "Z",
              "É", "È", "À", "Â", "Ê", "Î", "Ô", "Û", "Ç">>
LowerSeq == <<"a", "b", "c", "d", "e", "f", "g", "h", "i", "j", "k", "l", "m",
              "n", "o", "p", "q", "r", "s", "t", "u", "v", "w", "x", "y", "z",
              "é", "è", "à", "â", "ê", "î", "ô", "û", "ç">>
\* The accented letters the pattern of ragServer.py:69 lists, and their
\* other case (re.IGNORECASE).
AccentedListed == {"É", "È", "À", "Â", "Î", "Ô", "Û", "Ç",
                   "é", "è", "à", "â", "ê", "î", "ô", "û", "ç", "Ê"}
\* U+017F LATIN SMALL LETTER LONG S (written by its code point): not in A-Z,
\* a-z or the Latin-1 letters, and with re.IGNORECASE matched by [a-z] and by
\* the literal s.
LongS == "U+017F"

\* c.lower() of one character.
lower(c) ==
    IF \E k \in 1..Len(UpperSeq) : UpperSeq[k] = c
    THEN LowerSeq[CHOOSE k \in 1..Len(UpperSeq) : UpperSeq[k] = c]
    ELSE c

\* s.lower()
lowerStr(s) == [k \in 1..Len(s) |-> lower(s[k])]

\* `needle in haystack`
Contains(haystack, needle) ==
    \E i \in 0..(Len(haystack) - Len(needle)) :
        SubSeq(haystack, i + 1, i + Len(needle)) = needle

\* [.!?] of the lookbehind of ragServer.py:57
Terminal == {".", "!", "?"}

\* [A-ZÉÈÀÂÎÔÛÇa-zéèàâêîôûç'\- ] under re.IGNORECASE, ragServer.py:69
NameClass == LowerAscii \cup UpperAscii \cup AccentedListed
                \cup {"'", "-", " "} \cup {LongS}

\* [A-Za-zÀ-ÖØ-öø-ÿ'\- ], the characters re.sub keeps, ragServer.py:73
KeepClass == LowerAscii \cup UpperAscii \cup AccentedListed \cup {"'", "-", " "}

\* A pattern character (lowercase) against a text character, re.IGNORECASE.
MatchesIgnoreCase(patternChar, c) ==
    lower(c) = patternChar \/ (patternChar = "s" /\ c = LongS)

(***************************************************************************)
(* re.split(r'(?<=[.!?]) +', best_chunk), ragServer.py:57.                 *)
(***************************************************************************)
\* First position >= i of text that holds no space (Len(text) + 1 if none).
RECURSIVE SkipSpaces(_, _)
SkipSpaces(text, i) ==
    IF i <= Len(text) /\ text[i] = " " THEN SkipSpaces(text, i + 1) ELSE i

RECURSIVE ReSplitFrom(_, _, _, _)
ReSplitFrom(text, i, cur, acc) ==
    IF i > Len(text) THEN Append(acc, cur)
    ELSE IF text[i] = " " /\ i > 1 /\ text[i - 1] \in Terminal
         THEN ReSplitFrom(text, SkipSpaces(text, i), <<>>, Append(acc, cur))
         ELSE ReSplitFrom(text, i + 1, Append(cur, text[i]), acc)

\* Faulty variant: the terminal punctuation is consumed by the split.
SplitDropTerminalMutant(text) ==
    LET pieces == ReSplitFrom(text, 1, <<>>, <<>>)
    IN  [k \in 1..Len(pieces) |->
            IF k < Len(pieces) THEN SubSeq(pieces[k], 1, Len(pieces[k]) - 1)
            ELSE pieces[k]]

\* re.split(r'(?<=[.!?]) +', text)
SplitSentences(text) == ReSplitFrom(text, 1, <<>>, <<>>)

(***************************************************************************)
(* cos_sim and np.argmax, ragServer.py:61-65.  The vectors have components *)
(* >= 0, so two cosines against the same question compare by their         *)
(* squares; a zero vector has cosine 0 (cos_sim normalises it to zero).    *)
(***************************************************************************)
RECURSIVE DotFrom(_, _, _)
DotFrom(u, v, j) == IF j = 0 THEN 0 ELSE u[j] * v[j] + DotFrom(u, v, j - 1)
Dot(u, v) == DotFrom(u, v, Len(u))

\* cos_sim(q, s1) > cos_sim(q, s2)
CosGreater(q, s1, s2) ==
    LET d1 == Dot(q, s1)
        d2 == Dot(q, s2)
        n1 == Dot(s1, s1)
        n2 == Dot(s2, s2)
    IN  IF Dot(q, q) = 0 \/ n1 = 0 THEN FALSE
        ELSE IF n2 = 0 THEN d1 > 0
        ELSE d1 * d1 * n2 > d2 * d2 * n1

\* Faulty variant: the last of the maxima.
RECURSIVE ArgMaxLast(_, _, _)
ArgMaxLast(q, embs, n) ==
    IF n = 1 THEN 1
    ELSE LET best == ArgMaxLast(q, embs, n - 1)
         IN  IF CosGreater(q, embs[best], embs[n]) THEN best ELSE n

\* np.argmax(sims) over sentences 1..n: the first of the maxima.
RECURSIVE ArgMax(_, _, _)
ArgMax(q, embs, n) ==
    IF n = 1 THEN 1
    ELSE LET best == ArgMax(q, embs, n - 1)
         IN  IF CosGreater(q, embs[n], embs[best]) THEN n ELSE best

\* best_sentence, ragServer.py:57-65
BestSentence(m, question, best_chunk) ==
    LET sentences == SplitSentences(best_chunk)
    IN  IF Len(sentences) = 1 THEN best_chunk
        ELSE LET sent_embs == [k \in 1..Len(sentences) |-> Embed(m, sentences[k])]
                 q_emb_single == Embed(m, question)
             IN  sentences[ArgMax(q_emb_single, sent_embs, Len(sentences))]

(***************************************************************************)
(* The authorship extraction, ragServer.py:67-74.                          *)
(***************************************************************************)
\* Faulty variant: English phrases.
TriggersEnglishMutant == <<
    <<"p", "r", "e", "s", "e", "n", "t", "e", "d">>,
    <<"p", "r", "e", "s", "e", "n", "t", "e", "r">>,
    <<"a", "u", "t", "h", "o", "r">>,
    <<"w", "h", "o", " ", "m", "a", "d", "e">>,
    <<"w", "h", "o", " ", "w", "r", "o", "t", "e">>,
    <<"w", "h", "o", " ", "d", "i", "r", "e", "c", "t", "e", "d">>>>

\* The phrases looked for in question.lower(), ragServer.py:67
Triggers == <<
    <<"p", "r", "é", "s", "e", "n", "t", "é">>,
    <<"p", "r", "é", "s", "e", "n", "t", "a", "t", "e", "u", "r">>,
    <<"a", "u", "t", "e", "u", "r">>,
    <<"q", "u", "i", " ", "a", " ", "f", "a", "i", "t">>,
    <<"q", "u", "i", " ", "a", " ", "é", "c", "r", "i", "t">>,
    <<"q", "u", "i", " ", "a", " ", "r", "é", "a", "l", "i", "s", "é">>>>

\* The alternatives of group 1 of the pattern, in its order, ragServer.py:69
Labels == <<
    <<"p", "r", "é", "s", "e", "n", "t", "é", " ", "p", "a", "r">>,
    <<"a", "u", "t", "e", "u", "r">>,
    <<"p", "r", "é", "s", "e", "n", "t", "a", "t", "e", "u", "r">>>>

HasTrigger(question) ==
    \E k \in 1..Len(Triggers) : Contains(lowerStr(question), Triggers[k])

\* label matches text at position i (re.IGNORECASE)
LabelAt(text, i, label) ==
    /\ i + Len(label) - 1 <= Len(text)
    /\ \A k \in 1..Len(label) : MatchesIgnoreCase(label[k], text[i + k - 1])

\* Number of whitespace characters of text from position i on (\s*, greedy).
RECURSIVE WsRun(_, _)
WsRun(text, i) ==
    IF i <= Len(text) /\ text[i] \in Whitespace THEN 1 + WsRun(text, i + 1) ELSE 0

NameAt(text, i) == i <= Len(text) /\ text[i] \in NameClass

\* The second \s* takes c whitespace characters from p2, the most first;
\* group 2 starts where a name character follows.  0: no match.
RECURSIVE TrySecondWs(_, _, _)
TrySecondWs(text, p2, c) ==
    IF c < 0 THEN 0
    ELSE IF NameAt(text, p2 + c) THEN p2 + c
    ELSE TrySecondWs(text, p2, c - 1)

\* [:\-]? takes the separator at p1 if there is one, and else nothing.
TrySeparator(text, p1) ==
    LET with == IF p1 <= Len(text) /\ text[p1] \in {":", "-"}
                THEN TrySecondWs(text, p1 + 1, WsRun(text, p1 + 1))
                ELSE 0
    IN  IF with # 0 THEN with ELSE TrySecondWs(text, p1, WsRun(text, p1))

\* The first \s* takes a whitespace characters from p, the most first.
RECURSIVE TryFirstWs(_, _, _)
TryFirstWs(text, p, a) ==
    IF a < 0 THEN 0
    ELSE LET g == TrySeparator(text, p + a)
         IN  IF g # 0 THEN g ELSE TryFirstWs(text, p, a - 1)

\* Start of group 2 of a match of the pattern that begins at i, trying the
\* labels from k on.  0: no match at i.
RECURSIVE MatchAt(_, _, _)
MatchAt(text, i, k) ==
    IF k > Len(Labels) THEN 0
    ELSE LET after == i + Len(Labels[k])
             g == IF LabelAt(text, i, Labels[k])
                  THEN TryFirstWs(text, after, WsRun(text, after))
                  ELSE 0
         IN  IF g # 0 THEN g ELSE MatchAt(text, i, k + 1)

\* re.search: the leftmost match.  Start of its group 2, 0 when there is none.
RECURSIVE SearchFrom(_, _)
SearchFrom(text, i) ==
    IF i > Len(text) THEN 0
    ELSE LET g == MatchAt(text, i, 1)
         IN  IF g # 0 THEN g ELSE SearchFrom(text, i + 1)

\* Last position of the run of name characters that starts at g ([...]+).
RECURSIVE NameEnd(_, _)
NameEnd(text, g) == IF NameAt(text, g + 1) THEN NameEnd(text, g + 1) ELSE g

\* match.group(2)
Group2(text) ==
    LET g == SearchFrom(text, 1) IN SubSeq(text, g, NameEnd(text, g))

\* s.strip()
RECURSIVE lstrip(_)
lstrip(s) ==
    IF s # <<>> /\ Head(s) \in Whitespace THEN lstrip(Tail(s)) ELSE s
RECURSIVE rstrip(_)
rstrip(s) ==
    IF s # <<>> /\ s[Len(s)] \in Whitespace
    THEN rstrip(SubSeq(s, 1, Len(s) - 1)) ELSE s
strip(s) == rstrip(lstrip(s))

\* re.sub(r'[^...]', '', nom): the characters of KeepClass, in order.
RECURSIVE Clean(_)
Clean(s) ==
    IF s = <<>> THEN <<>>
    ELSE (IF Head(s) \in KeepClass THEN <<Head(s)>> ELSE <<>>) \o Clean(Tail(s))

\* Faulty variant: a chunk of one sentence is returned as it is, without the
\* authorship extraction.
RefineOneSentenceVerbatimMutant(m, question, best_chunk) ==
    LET best_sentence == BestSentence(m, question, best_chunk)
    IN  IF Len(SplitSentences(best_chunk)) > 1
           /\ HasTrigger(question) /\ SearchFrom(best_sentence, 1) # 0
        THEN Clean(strip(Group2(best_sentence)))
        ELSE best_sentence

\* Faulty variant: the sentence returned when the extraction does not fire
\* is stripped and cleaned as a name is.
RefineCleanFallbackMutant(m, question, best_chunk) ==
    LET best_sentence == BestSentence(m, question, best_chunk)
    IN  IF HasTrigger(question) /\ SearchFrom(best_sentence, 1) # 0
        THEN Clean(strip(Group2(best_sentence)))
        ELSE Clean(strip(best_sentence))

\* ragServer.py:57-75: the answer made of the best chunk.
Refine(m, question, best_chunk) ==
    LET best_sentence == BestSentence(m, question, best_chunk)
    IN  IF HasTrigger(question) /\ SearchFrom(best_sentence, 1) # 0
        THEN Clean(strip(Group2(best_sentence)))
        ELSE best_sentence

(***************************************************************************)
(* The strings the tools return.                                           *)
(***************************************************************************)
Digits == <<"0", "1", "2", "3", "4", "5", "6", "7", "8", "9">>

\* str(n) for n >= 0
RECURSIVE Str(_)
Str(n) ==
    IF n < 10 THEN <<Digits[n + 1]>>
    ELSE Str(n \div 10) \o <<Digits[(n % 10) + 1]>>

\* ragServer.py:47
Sentinel ==
    <<"A", "u", "c", "u", "n", " ", "P", "D", "F", " ", "i", "n", "d",
          "e", "x", "é", " ", "p", "o", "u", "r", " ", "c", "e", "t",
          "t", "e", " ", "s", "e", "s", "s", "i", "o", "n", ".">>

\* ragServer.py:41
Status(n) ==
    <<"P", "D", "F", " ", "i", "n", "d", "e", "x", "é", " ", "a", "v",
          "e", "c", " ">>
    \o Str(n) \o
    <<" ", "p", "a", "s", "s", "a", "g", "e", "s", ".">>

(***************************************************************************)
(* The files and the requests of the model.                                *)
(***************************************************************************)
SessionIds == {"A", "B"}
Paths == {"d1.pdf", "d2.pdf", "empty.pdf", "bad.pdf"}

\* extract_pdf_text, ragServer.py:18-24: the text of the pages, or an
\* exception of open() or PyPDF2 for a file that cannot be read.
Readable(pdf_path) == pdf_path # "bad.pdf"
extract_pdf_text(pdf_path) ==
    CASE pdf_path = "d1.pdf" ->
            <<"a", "u", "t", "e", "u", "r", " ", "B", "o", "b", ".", "\n",
              "e", "f", " ", " ", "g", "h">>
      [] pdf_path = "d2.pdf" -> <<"x", ".", " ", "y", "z">>
      [] OTHER -> <<" ", "\n">>

Questions == {<<"a", "u", "t", "e", "u", "r", " ", "?">>, <<"y", "z">>}

Procs == 1..2

NoResult == [kind |-> "none", exc |-> "", value |-> <<>>]
Return(value) == [kind |-> "return", exc |-> "", value |-> value]
Raise(exc) == [kind |-> "raise", exc |-> exc, value |-> <<>>]
NoLocals == [index |-> IndexFlatL2(0), chunks |-> <<>>]
NoRequest == [op |-> "none", file_path |-> "", session_id |-> "", question |-> <<>>]
NoSeen == [gen |-> 0, last |-> ""]
NoInput == [text |-> <<>>, chunk_size |-> 0]
NoOutput == [applied |-> FALSE, value |-> <<>>]

VARIABLES
    PDF_INDEXES,  \* the registry, ragServer.py:16: session_id -> [index, chunks]
    pc,           \* per request slot: the line the request is at
    req,          \* per request slot: the tool called and its arguments
    loc,          \* per request slot: the locals index and chunks
    result,       \* per request slot: what the last request returned or raised
    model,        \* the embedding function of this run
    emptyNdim,    \* ndim of model.encode([]) in this run's library
    nreq,         \* requests started so far
    hist,         \* history: per session, the entries published, in order
    lastFile,     \* history: per session, the file of the index_pdf request that
                  \* ended last, of those whose file was extracted and whose
                  \* chunks model.encode took (it published, or raised at line 37)
    seen,         \* history: Len(hist[session_id]) and lastFile[session_id] when
                  \* the query ran line 46
    fault,        \* history: what the request's call of model.encode did
    fnIn,         \* input of the function under test (function specifications)
    fnOut         \* its output

vars == <<PDF_INDEXES, pc, req, loc, result, model, emptyNdim, nreq, hist,
          lastFile, seen, fault, fnIn, fnOut>>

\* Faulty variant: one entry shared by all the sessions.
PutSharedMutant(registry, session_id, entry) ==
    [k \in SessionIds |-> entry]

\* Faulty variant: the registry is rebound to a dict of this one entry.
PutResetMutant(registry, session_id, entry) ==
    [k \in {session_id} |-> entry]

\* PDF_INDEXES[session_id] = entry
Put(registry, session_id, entry) ==
    [k \in DOMAIN registry \cup {session_id} |->
        IF k = session_id THEN entry ELSE registry[k]]

(***************************************************************************)
(* index_pdf, ragServer.py:32-41.                                          *)
(***************************************************************************)
\* Faulty variant: a failed extraction is swallowed and the request goes on
\* with an empty text.
BuildPartialMutant(m, file_path, outcome, ndim0) ==
    LET text == IF Readable(file_path) THEN extract_pdf_text(file_path) ELSE <<>>
        chunks == chunk_text(text, ChunkSize)
        embeddings == encode(m, chunks, outcome, ndim0)
    IN  IF Readable(file_path) /\ (outcome = "raise" \/ embeddings.ndim < 2)
        THEN [ok |-> FALSE, exc |-> "Error", entry |-> NoLocals]
        ELSE [ok |-> TRUE, exc |-> "",
              entry |-> [index |-> add(IndexFlatL2(Dim), embeddings),
                         chunks |-> chunks]]

\* Faulty variant: the rows are added in the reverse order of the chunks.
BuildUnorderedMutant(m, file_path, outcome, ndim0) ==
    LET chunks == chunk_text(extract_pdf_text(file_path), ChunkSize)
        embeddings == encode(m, chunks, outcome, ndim0)
        n == Len(embeddings.rows)
    IN  IF ~Readable(file_path) \/ outcome = "raise" \/ embeddings.ndim < 2
        THEN [ok |-> FALSE, exc |-> "Error", entry |-> NoLocals]
        ELSE [ok |-> TRUE, exc |-> "",
              entry |-> [index |-> [d |-> Dim,
                                    rows |-> [i \in 1..n |-> embeddings.rows[n + 1 - i]]],
                         chunks |-> chunks]]

\* Lines 34-39: the entry built of the file, or the exception raised.
Build(m, file_path, outcome, ndim0) ==
    IF ~Readable(file_path)
    THEN [ok |-> FALSE, exc |-> "PdfReadError", entry |-> NoLocals]
    ELSE LET text == extract_pdf_text(file_path)
             chunks == chunk_text(text, ChunkSize)
             embeddings == encode(m, chunks, outcome, ndim0)
         IN  IF outcome = "raise"
             THEN [ok |-> FALSE, exc |-> "EmbeddingError", entry |-> NoLocals]
             ELSE IF embeddings.ndim < 2
             \* embeddings.shape[1] of an array of one dimension
             THEN [ok |-> FALSE, exc |-> "IndexError", entry |-> NoLocals]
             ELSE [ok |-> TRUE, exc |-> "",
                   entry |-> [index |-> add(IndexFlatL2(Dim), embeddings),
                              chunks |-> chunks]]

\* A request index_pdf(file_path, session_id) arrives and runs lines 34-39,
\* which touch nothing shared.
IngestBuild(p, outcomes) ==
    /\ pc[p] \in {"idle", "done"}
    /\ nreq < MaxRequests
    /\ \E file_path \in Paths, session_id \in SessionIds, outcome \in outcomes :
         LET b == Build(model, file_path, outcome, emptyNdim)
         IN  \* a batch of no string cannot come back a row short
             /\ outcome = "short" => Readable(file_path) /\ split(extract_pdf_text(file_path)) # <<>>
             /\ req' = [req EXCEPT ![p] = [op |-> "index_pdf", file_path |-> file_path,
                                           session_id |-> session_id, question |-> <<>>]]
             /\ fault' = [fault EXCEPT ![p] = IF Readable(file_path) THEN outcome ELSE "none"]
             /\ IF b.ok
                THEN /\ pc' = [pc EXCEPT ![p] = "I40"]
                     /\ loc' = [loc EXCEPT ![p] = b.entry]
                     /\ result' = [result EXCEPT ![p] = NoResult]
                     /\ UNCHANGED lastFile
                ELSE /\ pc' = [pc EXCEPT ![p] = "done"]
                     /\ loc' = [loc EXCEPT ![p] = NoLocals]
                     /\ result' = [result EXCEPT ![p] = Raise(b.exc)]
                     /\ lastFile' = IF b.exc = "IndexError"
                                    THEN [lastFile EXCEPT ![session_id] = file_path]
                                    ELSE lastFile
    /\ nreq' = nreq + 1
    /\ seen' = [seen EXCEPT ![p] = NoSeen]
    /\ UNCHANGED <<PDF_INDEXES, model, emptyNdim, hist, fnIn, fnOut>>

\* Lines 40-41.
IngestPublish(p) ==
    /\ pc[p] = "I40"
    /\ PDF_INDEXES' = Put(PDF_INDEXES, req[p].session_id, loc[p])
    /\ hist' = [hist EXCEPT ![req[p].session_id] = Append(@, loc[p])]
    /\ lastFile' = [lastFile EXCEPT ![req[p].session_id] = req[p].file_path]
    /\ result' = [result EXCEPT ![p] = Return(Status(Len(loc[p].chunks)))]
    /\ pc' = [pc EXCEPT ![p] = "done"]
    /\ loc' = [loc EXCEPT ![p] = NoLocals]
    /\ UNCHANGED <<req, model, emptyNdim, nreq, seen, fault, fnIn, fnOut>>

(***************************************************************************)
(* rag_query, ragServer.py:44-75.                                          *)
(***************************************************************************)
\* Faulty variant: the membership test is missing.
UnknownNeverMutant(registry, session_id) == FALSE
\* Line 46: session_id not in PDF_INDEXES
Unknown(registry, session_id) == session_id \notin DOMAIN registry

\* A request rag_query(question, session_id) arrives and runs lines 46-47.
QueryCheck(p) ==
    /\ pc[p] \in {"idle", "done"}
    /\ nreq < MaxRequests
    /\ \E question \in Questions, session_id \in SessionIds :
         /\ req' = [req EXCEPT ![p] = [op |-> "rag_query", file_path |-> "",
                                       session_id |-> session_id, question |-> question]]
         /\ seen' = [seen EXCEPT ![p] = [gen |-> Len(hist[session_id]),
                                          last |-> lastFile[session_id]]]
         /\ IF Unknown(PDF_INDEXES, session_id)
            THEN /\ pc' = [pc EXCEPT ![p] = "done"]
                 /\ result' = [result EXCEPT ![p] = Return(Sentinel)]
            ELSE /\ pc' = [pc EXCEPT ![p] = "Q48"]
                 /\ result' = [result EXCEPT ![p] = NoResult]
    /\ nreq' = nreq + 1
    /\ loc' = [loc EXCEPT ![p] = NoLocals]
    /\ fault' = [fault EXCEPT ![p] = "none"]
    /\ UNCHANGED <<PDF_INDEXES, model, emptyNdim, hist, lastFile, fnIn, fnOut>>

\* Line 48: index = PDF_INDEXES[session_id]["index"]
QueryReadIndex(p) ==
    /\ pc[p] = "Q48"
    /\ IF req[p].session_id \in DOMAIN PDF_INDEXES
       THEN /\ loc' = [loc EXCEPT ![p].index = PDF_INDEXES[req[p].session_id].index]
            /\ pc' = [pc EXCEPT ![p] = "Q49"]
            /\ UNCHANGED result
       ELSE /\ result' = [result EXCEPT ![p] = Raise("KeyError")]
            /\ pc' = [pc EXCEPT ![p] = "done"]
            /\ UNCHANGED loc
    /\ UNCHANGED <<PDF_INDEXES, req, model, emptyNdim, nreq, hist, lastFile, seen,
                   fault, fnIn, fnOut>>

\* Faulty variant: the entry is taken out of the registry as it is read
\* (PDF_INDEXES.pop(session_id)["chunks"]).
QueryReadChunksPopMutant(p) ==
    /\ pc[p] = "Q49"
    /\ IF req[p].session_id \in DOMAIN PDF_INDEXES
       THEN /\ loc' = [loc EXCEPT ![p].chunks = PDF_INDEXES[req[p].session_id].chunks]
            /\ pc' = [pc EXCEPT ![p] = "Q50"]
            /\ PDF_INDEXES' = [k \in DOMAIN PDF_INDEXES \ {req[p].session_id} |->
                                  PDF_INDEXES[k]]
            /\ UNCHANGED result
       ELSE /\ result' = [result EXCEPT ![p] = Raise("KeyError")]
            /\ pc' = [pc EXCEPT ![p] = "done"]
            /\ loc' = [loc EXCEPT ![p] = NoLocals]
            /\ UNCHANGED PDF_INDEXES
    /\ UNCHANGED <<req, model, emptyNdim, nreq, hist, lastFile, seen,
                   fault, fnIn, fnOut>>

\* Line 49: chunks = PDF_INDEXES[session_id]["chunks"]
QueryReadChunks(p) ==
    /\ pc[p] = "Q49"
    /\ IF req[p].session_id \in DOMAIN PDF_INDEXES
       THEN /\ loc' = [loc EXCEPT ![p].chunks = PDF_INDEXES[req[p].session_id].chunks]
            /\ pc' = [pc EXCEPT ![p] = "Q50"]
            /\ UNCHANGED result
       ELSE /\ result' = [result EXCEPT ![p] = Raise("KeyError")]
            /\ pc' = [pc EXCEPT ![p] = "done"]
            /\ loc' = [loc EXCEPT ![p] = NoLocals]
    /\ UNCHANGED <<PDF_INDEXES, req, model, emptyNdim, nreq, hist, lastFile, seen,
                   fault, fnIn, fnOut>>

\* Lines 50-75 on the locals index and chunks.  The outcome is that of the
\* call of model.encode of line 50.
Answer(m, question, index, chunks, outcome, ndim0) ==
    LET q_emb == encode(m, <<question>>, outcome, ndim0)
    IN  IF outcome = "raise" THEN Raise("EmbeddingError")
        \* no row to search with: I[0][0] of an empty result
        ELSE IF q_emb.rows = <<>> THEN Raise("IndexError")
        ELSE LET idx == search(index, q_emb.rows[1])
             IN  IF ~InRange(chunks, idx) THEN Raise("IndexError")
                 ELSE Return(Refine(m, question, getitem(chunks, idx)))

QueryAnswer(p, outcomes) ==
    /\ pc[p] = "Q50"
    /\ \E outcome \in outcomes :
         /\ result' = [result EXCEPT ![p] =
                         Answer(model, req[p].question, loc[p].index, loc[p].chunks,
                                outcome, emptyNdim)]
         /\ fault' = [fault EXCEPT ![p] = outcome]
    /\ pc' = [pc EXCEPT ![p] = "done"]
    /\ loc' = [loc EXCEPT ![p] = NoLocals]
    /\ UNCHANGED <<PDF_INDEXES, req, model, emptyNdim, nreq, hist, lastFile, seen,
                   fnIn, fnOut>>

(***************************************************************************)
(* The server: requests run line by line, interleaved, with an embedding   *)
(* model that keeps its contract (one vector per string, or an exception). *)
(***************************************************************************)
Init ==
    /\ PDF_INDEXES = <<>>
    /\ pc = [p \in Procs |-> "idle"]
    /\ req = [p \in Procs |-> NoRequest]
    /\ loc = [p \in Procs |-> NoLocals]
    /\ result = [p \in Procs |-> NoResult]
    /\ model \in 1..NumModels
    /\ emptyNdim \in {1, 2}
    /\ nreq = 0
    /\ hist = [s \in SessionIds |-> <<>>]
    /\ lastFile = [s \in SessionIds |-> ""]
    /\ seen = [p \in Procs |-> NoSeen]
    /\ fault = [p \in Procs |-> "none"]
    /\ fnIn = NoInput
    /\ fnOut = NoOutput

Next ==
    \E p \in Procs :
        \/ IngestBuild(p, EmbedOk)
        \/ IngestPublish(p)
        \/ QueryCheck(p)
        \/ QueryReadIndex(p)
        \/ QueryReadChunks(p)
        \/ QueryAnswer(p, EmbedOk)

Spec == Init /\ [][Next]_vars

(***************************************************************************)
(* The same server with an embedding model that may also break its         *)
(* contract: a batch with a vector missing or a vector too many.           *)
(***************************************************************************)
NextFault ==
    \E p \in Procs :
        \/ IngestBuild(p, EmbedAny)
        \/ IngestPublish(p)
        \/ QueryCheck(p)
        \/ QueryReadIndex(p)
        \/ QueryReadChunks(p)
        \/ QueryAnswer(p, EmbedAny)

SpecFault == Init /\ [][NextFault]_vars

(***************************************************************************)
(* chunk_text alone, on every text of at most MaxTextLen characters and    *)
(* every chunk_size of 1..MaxChunkSize.                                    *)
(***************************************************************************)
TextAlphabet == {"a", "b", " ", "\n"}

RECURSIVE TextsUpTo(_)
TextsUpTo(n) ==
    IF n = 0 THEN {<<>>}
    ELSE LET shorter == TextsUpTo(n - 1)
         IN  shorter \cup {Append(t, c) : t \in shorter, c \in TextAlphabet}

InitChunk ==
    /\ PDF_INDEXES = <<>>
    /\ pc = [p \in Procs |-> "idle"]
    /\ req = [p \in Procs |-> NoRequest]
    /\ loc = [p \in Procs |-> NoLocals]
    /\ result = [p \in Procs |-> NoResult]
    /\ model = 1
    /\ emptyNdim = 1
    /\ nreq = 0
    /\ hist = [s \in SessionIds |-> <<>>]
    /\ lastFile = [s \in SessionIds |-> ""]
    /\ seen = [p \in Procs |-> NoSeen]
    /\ fault = [p \in Procs |-> "none"]
    /\ fnIn \in [text : TextsUpTo(MaxTextLen), chunk_size : 1..MaxChunkSize]
    /\ fnOut = NoOutput

ApplyChunkText ==
    /\ ~fnOut.applied
    /\ fnOut' = [applied |-> TRUE, value |-> chunk_text(fnIn.text, fnIn.chunk_size)]
    /\ UNCHANGED <<PDF_INDEXES, pc, req, loc, result, model, emptyNdim, nreq, hist,
                   lastFile, seen, fault, fnIn>>

NextChunk == ApplyChunkText

SpecChunk == InitChunk /\ [][NextChunk]_vars

(***************************************************************************)
(* Properties.                                                             *)
(***************************************************************************)
\* The answer is a non-empty run of characters of one of the chunks.
DrawnFrom(answer, chunks) ==
    answer # <<>> /\ \E k \in 1..Len(chunks) : Contains(chunks[k], answer)

\* The chunk lists published for session s from generation `from` on.
ChunkLists(s, from) == {hist[s][k].chunks : k \in from..Len(hist[s])}

QueryDone(p) == pc[p] = "done" /\ req[p].op = "rag_query"

\* C1: a query that has read the index (line 48) and the chunk list (line 49)
\* of its session holds the index and the chunk list of one and the same
\* published entry of that session.
C1_QueryReadsOneGeneration ==
    \A p \in Procs :
        pc[p] = "Q50" =>
            \E k \in 1..Len(hist[req[p].session_id]) :
                hist[req[p].session_id][k] = loc[p]

\* A session has an entry exactly when an entry was published for it, and
\* the entry is the one published last.
PublishedEntryWins ==
    \A s \in SessionIds :
        /\ s \in DOMAIN PDF_INDEXES <=> hist[s] # <<>>
        /\ hist[s] # <<>> => PDF_INDEXES[s] = hist[s][Len(hist[s])]

\* C2: once a session that holds an entry has been re-ingested with a
\* document D2, a query that starts afterwards (with no further ingestion of
\* the session) returns no answer drawn from the chunks of an entry of
\* another document than D2.
C2_ReingestionWins ==
    \A p \in Procs :
        /\ QueryDone(p) /\ result[p].kind = "return"
        /\ seen[p].gen >= 1 /\ seen[p].last # ""
        /\ Len(hist[req[p].session_id]) = seen[p].gen
        /\ lastFile[req[p].session_id] = seen[p].last
        => LET s == req[p].session_id
               d2 == chunk_text(extract_pdf_text(seen[p].last), ChunkSize)
           IN  \A k \in 1..Len(hist[s]) :
                  hist[s][k].chunks # d2 => ~DrawnFrom(result[p].value, hist[s][k].chunks)

\* C3: the answer of a query on session s is drawn from the chunks of an
\* entry of s (one current during the query), and never from the chunks of
\* another session that was ingested with different documents.
C3_SessionsIsolated ==
    \A p \in Procs :
        QueryDone(p) /\ result[p].kind = "return" =>
            LET s == req[p].session_id
            IN  /\ seen[p].gen >= 1 =>
                      \E c \in ChunkLists(s, seen[p].gen) : DrawnFrom(result[p].value, c)
                /\ \A t \in SessionIds \ {s} :
                      ChunkLists(t, 1) \cap ChunkLists(s, 1) = {} =>
                          \A c \in ChunkLists(t, 1) : ~DrawnFrom(result[p].value, c)

\* C3 witness: both sessions hold entries of different documents and a query
\* on one of them has returned content.
C3_Witness ==
    \E p \in Procs :
        /\ QueryDone(p) /\ result[p].kind = "return" /\ seen[p].gen >= 1
        /\ \A s \in SessionIds : s \in DOMAIN PDF_INDEXES /\ PDF_INDEXES[s].chunks # <<>>
        /\ PDF_INDEXES["A"].chunks # PDF_INDEXES["B"].chunks

\* C4: a query on a session that has no entry returns the sentinel string,
\* as a normal return value, whatever the question.
C4_UnknownSessionSentinel ==
    \A p \in Procs :
        QueryDone(p) /\ (seen[p].gen = 0 \/ req[p].session_id \notin DOMAIN PDF_INDEXES)
            => result[p] = Return(Sentinel)

\* C4 witness: two queries with different questions on sessions without entry
\* have both returned the sentinel.
C4_Witness ==
    \E p, q \in Procs :
        /\ QueryDone(p) /\ QueryDone(q)
        /\ req[p].question # req[q].question
        /\ req[p].session_id \notin DOMAIN PDF_INDEXES
        /\ req[q].session_id \notin DOMAIN PDF_INDEXES
        /\ result[p].value = Sentinel /\ result[q].value = Sentinel

\* C5: an index_pdf request on a file whose extraction fails ends by raising
\* and never reaches line 40, and the step that runs it leaves the registry
\* as it was.
C5_ExtractionFailureLeavesRegistry ==
    [][/\ \A p \in Procs :
             req'[p].op = "index_pdf" /\ ~Readable(req'[p].file_path) =>
                 pc'[p] = "done" /\ result'[p].kind = "raise"
       /\ nreq' # nreq => PDF_INDEXES' = PDF_INDEXES /\ hist' = hist]_vars

\* C5 witness: index_pdf on an unreadable file has raised, and its session
\* has no entry.
C5_Witness ==
    \E p \in Procs :
        /\ pc[p] = "done" /\ req[p].op = "index_pdf" /\ ~Readable(req[p].file_path)
        /\ result[p].kind = "raise"
        /\ req[p].session_id \notin DOMAIN PDF_INDEXES
        /\ PDF_INDEXES # <<>>

\* C6: every entry of the registry has as many index rows as chunks, and row
\* i is the embedding of chunk i.
C6_RowsMatchChunks ==
    \A s \in DOMAIN PDF_INDEXES :
        LET e == PDF_INDEXES[s]
        IN  /\ Len(e.index.rows) = Len(e.chunks)
            /\ \A i \in 1..Len(e.chunks) : e.index.rows[i] = Embed(model, e.chunks[i])

\* C6 witness: an entry of two chunks whose embeddings differ.
C6_Witness ==
    \E s \in DOMAIN PDF_INDEXES :
        /\ Len(PDF_INDEXES[s].chunks) = 2
        /\ PDF_INDEXES[s].index.rows[1] # PDF_INDEXES[s].index.rows[2]

\* C7: a session that has an entry keeps having one, and the step that runs
\* line 40 leaves the request's session with an entry.
C7_IndexedStaysIndexed ==
    [][/\ DOMAIN PDF_INDEXES \subseteq DOMAIN PDF_INDEXES'
       /\ \A p \in Procs :
             pc[p] = "I40" /\ pc'[p] = "done" =>
                 req[p].session_id \in DOMAIN PDF_INDEXES']_vars

\* C7 witness: one session was ingested twice and the other once, and both
\* have an entry.
C7_Witness ==
    /\ DOMAIN PDF_INDEXES = SessionIds
    /\ \E s \in SessionIds : Len(hist[s]) = 2

\* C8: a query on a session whose last index_pdf request was for a document
\* of zero words (and with no later one) returns normally, and what it
\* returns is no content of any ingested document.
C8_EmptyDocumentQueryIsDefined ==
    \A p \in Procs :
        /\ QueryDone(p)
        /\ seen[p].last = "empty.pdf"
        /\ lastFile[req[p].session_id] = "empty.pdf"
        /\ Len(hist[req[p].session_id]) = seen[p].gen
        => /\ result[p].kind = "return"
           /\ \A t \in SessionIds : \A c \in ChunkLists(t, 1) :
                 ~DrawnFrom(result[p].value, c)

\* C9: a request whose call of model.encode raised, or returned a batch with
\* a vector missing or a vector too many, ends by raising.
C9_EmbedderFaultIsFatal ==
    \A p \in Procs :
        pc[p] = "done" /\ fault[p] \in {"raise", "short", "long"} =>
            result[p].kind = "raise"

\* C10: chunk_text(text, n) returns ceil(W / n) chunks for the W words of
\* text, none of them empty, and the chunks joined by single spaces are the
\* words of text joined by single spaces (and split back into those words).
C10_ChunkCountAndRejoin ==
    fnOut.applied =>
        LET words == split(fnIn.text)
            n == fnIn.chunk_size
            chunks == fnOut.value
        IN  /\ Len(chunks) = (Len(words) + n - 1) \div n
            /\ \A k \in 1..Len(chunks) : chunks[k] # <<>>
            /\ join(<<" ">>, chunks) = join(<<" ">>, words)
            /\ split(join(<<" ">>, chunks)) = words

\* C10 witness: a text of at least three words cut into windows the last of
\* which is not full.
C10_Witness ==
    /\ fnOut.applied
    /\ Len(split(fnIn.text)) >= 3
    /\ Len(split(fnIn.text)) % fnIn.chunk_size # 0
    /\ Len(fnOut.value) >= 2


\* C11: chunk k (from 0) of chunk_text(text, n) is made of the words at
\* positions k*n .. k*n+n-1 of the words of text, those there are: every
\* chunk but the last has exactly n words, the last has 1 to n.
C11_WindowsAreConsecutive ==
    fnOut.applied =>
        LET words == split(fnIn.text)
            n == fnIn.chunk_size
            chunks == fnOut.value
        IN  \A k \in 0..(Len(chunks) - 1) :
                /\ split(chunks[k + 1]) =
                      [j \in 1..(Min(k * n + n, Len(words)) - k * n) |-> words[k * n + j]]
                /\ k < Len(chunks) - 1 => Len(split(chunks[k + 1])) = n
                /\ k = Len(chunks) - 1 =>
                      Len(split(chunks[k + 1])) >= 1 /\ Len(split(chunks[k + 1])) <= n

\* C11 witness: three words cut by two give a full window of two words and
\* a last one of one word.
C11_Witness ==
    /\ fnOut.applied
    /\ fnIn.chunk_size = 2
    /\ Len(split(fnIn.text)) = 3
    /\ Len(fnOut.value) = 2
    /\ Len(split(fnOut.value[1])) = 2
    /\ Len(split(fnOut.value[2])) = 1


(***************************************************************************)
(* The k=1 search alone (ragServer.py:38-39 and :51-52), on every index of *)
(* 1..MaxRows rows and every query vector, components in Coords.           *)
(***************************************************************************)
MaxRows == 3

\* The components of the stored vectors and of the query vector.
Coords == 0..1

Vectors == [1..Dim -> Coords]

RECURSIVE RowsUpTo(_)
RowsUpTo(n) ==
    IF n = 0 THEN {<<>>}
    ELSE LET shorter == RowsUpTo(n - 1)
         IN  shorter \cup {Append(r, v) : r \in shorter, v \in Vectors}

\* The server at rest: no request in flight, nothing indexed.
ServerAtRest ==
    /\ PDF_INDEXES = <<>>
    /\ pc = [p \in Procs |-> "idle"]
    /\ req = [p \in Procs |-> NoRequest]
    /\ loc = [p \in Procs |-> NoLocals]
    /\ result = [p \in Procs |-> NoResult]
    /\ model = 1
    /\ emptyNdim = 1
    /\ nreq = 0
    /\ hist = [s \in SessionIds |-> <<>>]
    /\ lastFile = [s \in SessionIds |-> ""]
    /\ seen = [p \in Procs |-> NoSeen]
    /\ fault = [p \in Procs |-> "none"]

InitSearch ==
    /\ ServerAtRest
    /\ fnIn \in [rows : RowsUpTo(MaxRows) \ {<<>>}, q : Vectors]
    /\ fnOut = NoOutput

\* index = IndexFlatL2(dim); index.add(embeddings); idx of index.search(q, 1)
ApplySearch ==
    /\ ~fnOut.applied
    /\ LET index == add(IndexFlatL2(Dim), [ndim |-> 2, rows |-> fnIn.rows])
       IN  fnOut' = [applied |-> TRUE, value |-> search(index, fnIn.q)]
    /\ UNCHANGED <<PDF_INDEXES, pc, req, loc, result, model, emptyNdim, nreq, hist,
                   lastFile, seen, fault, fnIn>>

NextSearch == ApplySearch

SpecSearch == InitSearch /\ [][NextSearch]_vars

\* C12: on a non-empty index the k=1 search returns a row whose squared
\* Euclidean distance to the query is the minimum over all rows, and among
\* the rows at that minimum the one of lowest index.
C12_NearestLowestRow ==
    fnOut.applied =>
        LET rows == fnIn.rows
            idx == fnOut.value
        IN  /\ idx \in 0..(Len(rows) - 1)
            /\ \A j \in 0..(Len(rows) - 1) :
                  /\ L2sq(rows[idx + 1], fnIn.q) <= L2sq(rows[j + 1], fnIn.q)
                  /\ L2sq(rows[idx + 1], fnIn.q) = L2sq(rows[j + 1], fnIn.q) => idx <= j

\* C12 witness: three different rows, the first farther from the query than
\* the other two, which are equidistant; the search returns the second.
C12_Witness ==
    /\ fnOut.applied
    /\ Len(fnIn.rows) = 3
    /\ fnIn.rows[2] # fnIn.rows[3]
    /\ L2sq(fnIn.rows[2], fnIn.q) = L2sq(fnIn.rows[3], fnIn.q)
    /\ L2sq(fnIn.rows[1], fnIn.q) > L2sq(fnIn.rows[2], fnIn.q)
    /\ fnOut.value = 1


(***************************************************************************)
(* The refinement stage alone (ragServer.py:57-75), on chunks of           *)
(* 1..MaxWords words of Lexicon and on the two example sentences, with     *)
(* every question of RefineQuestions and every embedding model.            *)
(***************************************************************************)
MaxWords == 3

Lexicon == {
    <<"a", "u", "t", "e", "u", "r">>,
    <<"a", "u", "t", "e", "u", "r", ":">>,
    <<"B", "o", "b">>,
    <<"B", "o", "b", ".">>,
    <<"m", "a", LongS, "o", "n">>,
    <<"5">>,
    <<"y", "z", "!">>,
    <<"x", "?">>}

RECURSIVE WordSeqsUpTo(_)
WordSeqsUpTo(n) ==
    IF n = 0 THEN {<<>>}
    ELSE LET shorter == WordSeqsUpTo(n - 1)
         IN  shorter \cup {Append(ws, w) : ws \in shorter, w \in Lexicon}

EnglishSentence == <<"P", "r", "e", "s", "e", "n", "t", "e", "d", " ", "b", "y", " ", "J", "a", "n", "e", " ", "D", "o", "e", ".">>
FrenchSentence == <<"P", "r", "é", "s", "e", "n", "t", "é", " ", "p", "a", "r", " ", "J", "a", "n", "e", " ", "D", "o", "e", ".">>
EnglishQuestion == <<"W", "h", "o", " ", "p", "r", "e", "s", "e", "n", "t", "e", "d", " ", "t", "h", "i", "s", "?">>
FrenchQuestion == <<"Q", "u", "i", " ", "a", " ", "p", "r", "é", "s", "e", "n", "t", "é", " ", "c", "e", "c", "i", " ", "?">>
JaneDoe == <<"J", "a", "n", "e", " ", "D", "o", "e">>

\* best_chunk = chunks[idx] is one of the chunks chunk_text made.
RefineChunks ==
    {chunk_text(join(<<"\n">>, ws), MaxWords)[1] : ws \in WordSeqsUpTo(MaxWords) \ {<<>>}}
        \cup {chunk_text(EnglishSentence, ChunkSize * 2)[1],
              chunk_text(FrenchSentence, ChunkSize * 2)[1]}

RefineQuestions == Questions \cup {EnglishQuestion, FrenchQuestion}

InitRefine ==
    /\ ServerAtRest
    /\ fnIn \in [m : 1..NumModels, question : RefineQuestions, best_chunk : RefineChunks]
    /\ fnOut = NoOutput

\* Lines 57-75 on best_chunk: the returned answer, and the best_sentence of
\* lines 59 and 65 it was made from.
ApplyRefine ==
    /\ ~fnOut.applied
    /\ fnOut' = [applied |-> TRUE,
                 value |-> Refine(fnIn.m, fnIn.question, fnIn.best_chunk),
                 selected |-> BestSentence(fnIn.m, fnIn.question, fnIn.best_chunk)]
    /\ UNCHANGED <<PDF_INDEXES, pc, req, loc, result, model, emptyNdim, nreq, hist,
                   lastFile, seen, fault, fnIn>>

NextRefine == ApplyRefine

SpecRefine == InitRefine /\ [][NextRefine]_vars


\* The authorship extraction fires on sentence for question: the lowercased
\* question holds a trigger phrase and the pattern matches the sentence.
Fires(question, sentence) == HasTrigger(question) /\ SearchFrom(sentence, 1) # 0

\* C13 as stated: when the top chunk splits into exactly one sentence, the
\* refinement stage returns that sentence unmodified, with neither the
\* reranking nor the authorship extraction applied.
C13_OneSentenceUnmodified ==
    (fnOut.applied /\ Len(SplitSentences(fnIn.best_chunk)) = 1) =>
        fnOut.value = fnIn.best_chunk

\* C13 amended: when the top chunk splits into exactly one sentence, the
\* reranking is skipped and the selected sentence is the chunk itself; the
\* authorship extraction still applies to it, so the answer is the cleaned
\* name when the extraction fires and the chunk unmodified otherwise.
C13_OneSentenceNoRerank ==
    (fnOut.applied /\ Len(SplitSentences(fnIn.best_chunk)) = 1) =>
        /\ fnOut.selected = fnIn.best_chunk
        /\ Fires(fnIn.question, fnIn.best_chunk) =>
              fnOut.value = Clean(strip(Group2(fnIn.best_chunk)))
        /\ ~Fires(fnIn.question, fnIn.best_chunk) => fnOut.value = fnIn.best_chunk

\* C13 witness: a chunk of one sentence on which the extraction fired, the
\* answer being a name and not the sentence.
C13_Witness ==
    /\ fnOut.applied
    /\ Len(SplitSentences(fnIn.best_chunk)) = 1
    /\ Fires(fnIn.question, fnIn.best_chunk)
    /\ fnOut.value = <<"B", "o", "b">>
    /\ fnOut.value # fnIn.best_chunk

\* C14 as stated: the chunk "Presented by Jane Doe." with the question
\* "Who presented this?" gives exactly "Jane Doe".
C14_EnglishExample ==
    (fnOut.applied /\ fnIn.best_chunk = EnglishSentence
                   /\ fnIn.question = EnglishQuestion) =>
        fnOut.value = JaneDoe

\* C14 amended: the trigger phrases and the labels are French: the chunk
\* "Présenté par Jane Doe." with the question "Qui a présenté ceci ?" gives
\* exactly "Jane Doe" (label, trailing punctuation and non-name characters
\* stripped), and the English pair gives the sentence as it is.
C14_FrenchExample ==
    fnOut.applied =>
        /\ (fnIn.best_chunk = FrenchSentence /\ fnIn.question = FrenchQuestion) =>
              fnOut.value = JaneDoe
        /\ (fnIn.best_chunk = EnglishSentence /\ fnIn.question = EnglishQuestion) =>
              fnOut.value = EnglishSentence

\* C14 witness: the French pair was refined to "Jane Doe".
C14_Witness ==
    /\ fnOut.applied
    /\ fnIn.best_chunk = FrenchSentence
    /\ fnIn.question = FrenchQuestion
    /\ fnOut.value = JaneDoe

\* C15: when the authorship extraction does not fire (no trigger phrase in
\* the lowercased question, or no match of the pattern in the selected
\* sentence), the answer is the selected sentence, character for character.
C15_FallbackVerbatim ==
    (fnOut.applied /\ ~Fires(fnIn.question, fnOut.selected)) =>
        /\ fnOut.value = fnOut.selected
        /\ \E k \in 1..Len(SplitSentences(fnIn.best_chunk)) :
              SplitSentences(fnIn.best_chunk)[k] = fnOut.value

\* C15 witness: the question holds a trigger phrase, the pattern does not
\* match the sentence selected among several, and that sentence, which holds
\* characters no name holds, is the answer.
C15_Witness ==
    /\ fnOut.applied
    /\ HasTrigger(fnIn.question)
    /\ Len(SplitSentences(fnIn.best_chunk)) > 1
    /\ SearchFrom(fnOut.selected, 1) = 0
    /\ fnOut.value = fnOut.selected
    /\ Clean(fnOut.value) # fnOut.value

\* The embeddings of the sentences of the chunk and of the question, as
\* lines 60-62 compute them.
SentEmbs == [k \in 1..Len(SplitSentences(fnIn.best_chunk)) |->
                Embed(fnIn.m, SplitSentences(fnIn.best_chunk)[k])]
QEmb == Embed(fnIn.m, fnIn.question)

\* C16: when the top chunk splits into two or more sentences, the selected
\* sentence has the maximum similarity to the question over the sentences
\* of the chunk, and it is the earliest of those at the maximum.
C16_FirstMostSimilar ==
    (fnOut.applied /\ Len(SplitSentences(fnIn.best_chunk)) >= 2) =>
        \E i \in 1..Len(SentEmbs) :
            /\ fnOut.selected = SplitSentences(fnIn.best_chunk)[i]
            /\ \A j \in 1..Len(SentEmbs) : ~CosGreater(QEmb, SentEmbs[j], SentEmbs[i])
            /\ \A j \in 1..(i - 1) : CosGreater(QEmb, SentEmbs[i], SentEmbs[j])

\* C16 witness: two different sentences share a maximum that is above the
\* similarity of a third, and the earlier of the two is selected.
C16_Witness ==
    /\ fnOut.applied
    /\ Len(SentEmbs) = 3
    /\ \E i, j, l \in 1..3 :
          /\ i < j
          /\ SplitSentences(fnIn.best_chunk)[i] # SplitSentences(fnIn.best_chunk)[j]
          /\ ~CosGreater(QEmb, SentEmbs[i], SentEmbs[j])
          /\ ~CosGreater(QEmb, SentEmbs[j], SentEmbs[i])
          /\ CosGreater(QEmb, SentEmbs[i], SentEmbs[l])
          /\ fnOut.selected = SplitSentences(fnIn.best_chunk)[i]


\* The entry of session s in registry, <<>> when it has none.
EntryOf(registry, s) == IF s \in DOMAIN registry THEN <<registry[s]>> ELSE <<>>

\* C17: no step of a rag_query request changes the registry, whatever the
\* request ends with, and a step of an index_pdf request for session S
\* changes at most the entry of S: an entry changes only in the step of line
\* 40 of a request for its own session.
C17_FrameOfRequests ==
    [][/\ \A p \in Procs :
             (req'[p].op = "rag_query" /\ (pc'[p] # pc[p] \/ req'[p] # req[p]
                                              \/ result'[p] # result[p]))
                 => PDF_INDEXES' = PDF_INDEXES
       /\ \A s \in SessionIds :
             EntryOf(PDF_INDEXES', s) # EntryOf(PDF_INDEXES, s) =>
                 \E p \in Procs : /\ req[p].op = "index_pdf"
                                  /\ req[p].session_id = s
                                  /\ pc[p] = "I40" /\ pc'[p] = "done"]_vars

\* C17 witness: session A was ingested once, an index_pdf request for B has
\* failed, a query on A has ended, and the registry holds the entry of A
\* alone, as it was published.
C17_Witness ==
    /\ DOMAIN PDF_INDEXES = {"A"}
    /\ hist["A"] = <<PDF_INDEXES["A"]>>
    /\ \E p, q \in Procs :
          /\ pc[p] = "done" /\ req[p].op = "index_pdf" /\ req[p].session_id = "B"
          /\ result[p].kind = "raise"
          /\ QueryDone(q) /\ req[q].session_id = "A"


\* C18: the answer is a contiguous substring of the best-matching chunk:
\* either one whole sentence of that chunk, or the name-like run matched in
\* the selected sentence, from which the cleaning removes no character.
C18_AnswerIsSubstring ==
    fnOut.applied =>
        /\ Contains(fnIn.best_chunk, fnOut.value)
        /\ \/ \E k \in 1..Len(SplitSentences(fnIn.best_chunk)) :
                 SplitSentences(fnIn.best_chunk)[k] = fnOut.value
           \/ /\ Fires(fnIn.question, fnOut.selected)
              /\ fnOut.value = strip(Group2(fnOut.selected))


(***************************************************************************)
(* chunk_text followed by the sentence split of line 57, on every text of  *)
(* at most MaxTextLen characters of SentenceAlphabet.                      *)
(***************************************************************************)
SentenceAlphabet == {"a", ".", "?", " ", "\n"}

RECURSIVE TextsOver(_, _)
TextsOver(alphabet, n) ==
    IF n = 0 THEN {<<>>}
    ELSE LET shorter == TextsOver(alphabet, n - 1)
         IN  shorter \cup {Append(t, c) : t \in shorter, c \in alphabet}

InitSplit ==
    /\ ServerAtRest
    /\ fnIn \in [text : TextsOver(SentenceAlphabet, MaxTextLen), chunk_size : 1..MaxChunkSize]
    /\ fnOut = NoOutput

\* The chunks of the text, and for each chunk its sentences.
ApplySplit ==
    /\ ~fnOut.applied
    /\ LET chunks == chunk_text(fnIn.text, fnIn.chunk_size)
       IN  fnOut' = [applied |-> TRUE,
                     chunks |-> chunks,
                     value |-> [k \in 1..Len(chunks) |-> SplitSentences(chunks[k])]]
    /\ UNCHANGED <<PDF_INDEXES, pc, req, loc, result, model, emptyNdim, nreq, hist,
                   lastFile, seen, fault, fnIn>>

NextSplit == ApplySplit

SpecSplit == InitSplit /\ [][NextSplit]_vars

\* C20: the sentences of a chunk the chunker made, joined with single
\* spaces, are the chunk; no sentence is empty; every sentence but the last
\* ends with '.', '!' or '?'.
C20_SplitJoinRoundTrip ==
    fnOut.applied =>
        \A k \in 1..Len(fnOut.chunks) :
            LET sentences == fnOut.value[k]
            IN  /\ join(<<" ">>, sentences) = fnOut.chunks[k]
                /\ \A i \in 1..Len(sentences) : sentences[i] # <<>>
                /\ \A i \in 1..(Len(sentences) - 1) :
                      sentences[i][Len(sentences[i])] \in Terminal

\* C20 witness: a chunk of two sentences, made of a text whose words were
\* not separated by single spaces.
C20_Witness ==
    /\ fnOut.applied
    /\ Len(fnOut.chunks) = 1
    /\ Len(fnOut.value[1]) = 2
    /\ fnOut.chunks[1] # fnIn.text


(***************************************************************************)
(* scrape_multiple_pages, webScraperServer.py:307-371, one call at a time: *)
(* the validation, one step per turn of the loop, the summary.  The pages  *)
(* are the outside world: each call of scrape_webpage either returns a     *)
(* content or raises McpError.                                             *)
(***************************************************************************)
MaxUrls == 3

\* urlparse(url): scheme and netloc of the URLs of the model.
Urls == {"http://a.x", "https://b.x", "ftp://c.x", "http://", ""}

urlparse(url) ==
    CASE url = "http://a.x" -> [scheme |-> "http", netloc |-> "a.x"]
      [] url = "https://b.x" -> [scheme |-> "https", netloc |-> "b.x"]
      [] url = "ftp://c.x" -> [scheme |-> "ftp", netloc |-> "c.x"]
      [] url = "http://" -> [scheme |-> "http", netloc |-> ""]
      [] OTHER -> [scheme |-> "", netloc |-> ""]

\* webScraperServer.py:31-40
is_valid_url(url) ==
    IF url = "" THEN FALSE
    ELSE LET parsed == urlparse(url)
         IN  parsed.scheme \in {"http", "https"} /\ parsed.netloc # ""

\* The delays of the model, in seconds: one under the floor of 0.1, one
\* usual, one no clock can hold.
Delays == {"0.05", "1.0", "1e19"}

\* Lines 329-330: if delay < 0.1: delay = 0.1
ClampDelay(delay) == IF delay = "0.05" THEN "0.1" ELSE delay

\* time.sleep(delay) raises OverflowError ("timestamp out of range for
\* platform time_t") on a delay the platform clock cannot hold.
SleepRaises(delay) == delay = "1e19"

RECURSIVE UrlListsUpTo(_)
UrlListsUpTo(n) ==
    IF n = 0 THEN {<<>>}
    ELSE LET shorter == UrlListsUpTo(n - 1)
         IN  shorter \cup {Append(l, u) : l \in shorter, u \in Urls}

ScrapeOutcomes == {"content", "McpError"}

\* f"=== PAGE {i+1}: {url} ===..." and f"=== ERREUR PAGE {i+1}: {url} ===..."
Section(kind, i, url, body) == [kind |-> kind, n |-> i + 1, url |-> url, body |-> body]

NotStarted == [applied |-> FALSE, value |-> <<>>]

InitScrape ==
    /\ ServerAtRest
    /\ fnIn \in [urls : UrlListsUpTo(MaxUrls), delay : Delays, max_pages : 1..MaxUrls]
    /\ fnOut = NotStarted

\* Lines 323-335: the validation and the start of the loop.
ScrapeValidate ==
    /\ fnOut = NotStarted
    /\ IF fnIn.urls = <<>> \/ Len(fnIn.urls) > fnIn.max_pages
       THEN fnOut' = [applied |-> TRUE, value |-> Raise("McpError")]
       ELSE fnOut' = [applied |-> FALSE, value |-> <<>>, i |-> 0,
                      delay |-> ClampDelay(fnIn.delay), results |-> <<>>,
                      successful_scrapes |-> 0, calls |-> <<>>]
    /\ UNCHANGED <<PDF_INDEXES, pc, req, loc, result, model, emptyNdim, nreq, hist,
                   lastFile, seen, fault, fnIn>>

\* Lines 337-356: one turn of the loop, for urls[i].
ScrapePage ==
    /\ ~fnOut.applied /\ fnOut # NotStarted
    /\ fnOut.i < Len(fnIn.urls)
    /\ LET i == fnOut.i
           url == fnIn.urls[i + 1]
       IN  IF ~is_valid_url(url)
           THEN fnOut' = [fnOut EXCEPT
                    !.results = Append(@, Section("ERREUR PAGE", i, url, "URL invalide")),
                    !.i = i + 1]
           ELSE \E outcome \in ScrapeOutcomes :
                  IF outcome = "McpError"
                  THEN fnOut' = [fnOut EXCEPT
                           !.calls = Append(@, [url |-> url, outcome |-> outcome]),
                           !.results = Append(@, Section("ERREUR PAGE", i, url, "McpError")),
                           !.i = i + 1]
                  ELSE LET page == Section("PAGE", i, url, "content")
                           slept == i < Len(fnIn.urls) - 1
                       IN  fnOut' = [fnOut EXCEPT
                               !.calls = Append(@, [url |-> url, outcome |-> outcome]),
                               !.successful_scrapes = @ + 1,
                               !.results =
                                   IF slept /\ SleepRaises(fnOut.delay)
                                   THEN @ \o <<page, Section("ERREUR PAGE", i, url,
                                                             "OverflowError")>>
                                   ELSE Append(@, page),
                               !.i = i + 1]
    /\ UNCHANGED <<PDF_INDEXES, pc, req, loc, result, model, emptyNdim, nreq, hist,
                   lastFile, seen, fault, fnIn>>

\* Lines 358-365: the summary in front of the sections.
ScrapeSummary ==
    /\ ~fnOut.applied /\ fnOut # NotStarted
    /\ fnOut.i = Len(fnIn.urls)
    /\ fnOut' = [fnOut EXCEPT
           !.applied = TRUE,
           !.value = Return([traitees |-> Len(fnIn.urls),
                             reussies |-> fnOut.successful_scrapes,
                             echouees |-> Len(fnIn.urls) - fnOut.successful_scrapes,
                             sections |-> fnOut.results])]
    /\ UNCHANGED <<PDF_INDEXES, pc, req, loc, result, model, emptyNdim, nreq, hist,
                   lastFile, seen, fault, fnIn>>

NextScrape == ScrapeValidate \/ ScrapePage \/ ScrapeSummary

SpecScrape == InitScrape /\ [][NextScrape]_vars

\* Number of the sections of the given kind among the first n.
RECURSIVE CountKind(_, _, _)
CountKind(sections, kind, n) ==
    IF n = 0 THEN 0
    ELSE (IF sections[n].kind = kind THEN 1 ELSE 0) + CountKind(sections, kind, n - 1)

\* C19: on a non-empty list of at most max_pages URLs, the result holds
\* exactly one section per URL, in input order (a PAGE section for a valid
\* URL whose scrape succeeded, an ERREUR PAGE section otherwise), every URL
\* is processed once whatever failed before it, and the summary counts add
\* up to the number of URLs, the succeeded ones being the PAGE sections.
C19_OneSectionPerUrl ==
    (fnOut.applied /\ fnIn.urls # <<>> /\ Len(fnIn.urls) <= fnIn.max_pages) =>
        /\ fnOut.value.kind = "return"
        /\ LET out == fnOut.value.value
               sections == out.sections
           IN  /\ Len(sections) = Len(fnIn.urls)
               /\ \A k \in 1..Len(sections) :
                     /\ sections[k].n = k
                     /\ sections[k].url = fnIn.urls[k]
                     /\ sections[k].kind \in {"PAGE", "ERREUR PAGE"}
                     /\ ~is_valid_url(fnIn.urls[k]) => sections[k].kind = "ERREUR PAGE"
               /\ Len(fnOut.calls) = Cardinality({k \in 1..Len(fnIn.urls) :
                                                     is_valid_url(fnIn.urls[k])})
               /\ CountKind(sections, "PAGE", Len(sections)) =
                     Cardinality({k \in 1..Len(fnOut.calls) :
                                     fnOut.calls[k].outcome = "content"})
               /\ out.reussies + out.echouees = Len(fnIn.urls)
               /\ out.reussies = CountKind(sections, "PAGE", Len(sections))

====
